---- MODULE Spec2Model ----
(***************************************************************************)
(* Token lifecycle (utils/jwt.js) and the authentication / authorization   *)
(* middleware pipeline (middleware/auth.js) of Auth-Backend.               *)
(*                                                                         *)
(* Time is counted in whole seconds, as jsonwebtoken does.  A JWT string   *)
(* is a sequence of symbols: an ordinary character is [ch |-> c], a        *)
(* well-formed compact token is the one-symbol string <<t>> with t the     *)
(* record of its payload and signing key.  An optional JavaScript value    *)
(* (undefined / null versus a value) is the empty set or a singleton.      *)
(***************************************************************************)
EXTENDS Integers, Sequences, FiniteSets, TLC

\* ---------------------------------------------------------------- bounds
MaxTicks == 1
MaxIssued == 1

\* ------------------------------------------------------ program constants
AccessTtl == 10
JWT_EXPIRE == 604800
JWT_SECRET == "server-secret"
Issuer == "auth-backend"
Audience == "auth-client"

Roles == {"user", "admin"}

None == {}
Some(v) == {v}
Get(m) == CHOOSE x \in m : TRUE

Char(c) == [ch |-> c]
Str(s) == [i \in 1..Len(s) |-> Char(s[i])]

Bearer == <<Char("B"), Char("e"), Char("a"), Char("r"), Char("e"), Char("r"), Char(" ")>>
LowerBearer == <<Char("b"), Char("e"), Char("a"), Char("r"), Char("e"), Char("r"), Char(" ")>>
Garbage == <<Char("x")>>

Email(u) == [local |-> u, domain |-> "example.com"]

\* The 24-digit hex strings that name users, and the ObjectId values made of
\* them: an ObjectId is not the string of its digits.
UserIds == {"u1", "u2"}
ObjectId(hex) == "ObjectId('" \o hex \o "')"
ObjectIds == {ObjectId(u) : u \in UserIds}
toHexString(oid) == CHOOSE u \in UserIds : ObjectId(u) = oid

\* Amounts by which the clock is observed to advance between two steps.
TickSteps == {AccessTtl, JWT_EXPIRE}

VARIABLES now, ticks, users, issued, reqs, rejectedExpired

vars == <<now, ticks, users, issued, reqs, rejectedExpired>>

\* ------------------------------------------------------------ utils/jwt.js

\* JSON.stringify of a payload, as JSON.parse reads it back: an ObjectId is
\* written as the string of its hex digits, a string as itself
stringify(payload) ==
  [k \in DOMAIN payload |->
     IF k = "userId" /\ payload[k] \in ObjectIds THEN toHexString(payload[k])
     ELSE payload[k]]

\* jwt.sign(payload, secret, {expiresIn, issuer, audience}) at time t
JwtSign(payload, secret, expiresIn, t) ==
  [payload |-> stringify(payload), iat |-> t, exp |-> t + expiresIn, nbf |-> None,
   iss |-> Issuer, aud |-> Audience, key |-> secret]

generateToken(payload, expiresIn, t) == <<JwtSign(payload, JWT_SECRET, expiresIn, t)>>

\* generateAccessToken leaving the role out of the payload
generateAccessToken_NoRole(user, t) ==
  generateToken([userId |-> user._id, email |-> user.email, type |-> "access"],
                AccessTtl, t)

generateAccessToken(user, t) ==
  generateToken([userId |-> user._id, email |-> user.email,
                 role |-> user.role, type |-> "access"], AccessTtl, t)

generateRefreshToken(user, t) ==
  generateToken([userId |-> user._id, type |-> "refresh"], JWT_EXPIRE, t)

\* three base64url parts that decode to a header, a payload and a signature
IsCompact(token) ==
  Len(token) = 1 /\ DOMAIN token[1] = {"payload", "iat", "exp", "nbf", "iss", "aud", "key"}

\* jwt.verify taking a token to be expired only after the second exp
JwtVerifyError_ExpiredAfter(token, secret, t) ==
  IF ~IsCompact(token) THEN "JsonWebTokenError"
  ELSE IF token[1].key # secret THEN "JsonWebTokenError"
  ELSE IF token[1].nbf # None /\ Get(token[1].nbf) > t THEN "NotBeforeError"
  ELSE IF t > token[1].exp THEN "TokenExpiredError"
  ELSE IF token[1].aud # Audience THEN "JsonWebTokenError"
  ELSE IF token[1].iss # Issuer THEN "JsonWebTokenError"
  ELSE ""

\* jwt.verify with ignoreExpiration
JwtVerifyError_NoExpiry(token, secret, t) ==
  IF ~IsCompact(token) THEN "JsonWebTokenError"
  ELSE IF token[1].key # secret THEN "JsonWebTokenError"
  ELSE IF token[1].nbf # None /\ Get(token[1].nbf) > t THEN "NotBeforeError"
  ELSE IF token[1].aud # Audience THEN "JsonWebTokenError"
  ELSE IF token[1].iss # Issuer THEN "JsonWebTokenError"
  ELSE ""

\* jwt.verify: the name of the error it throws, or "" when the token verifies
\* (jsonwebtoken checks, in this order: structure, signature, nbf, exp, audience,
\* issuer; a token is expired from the second exp on)
JwtVerifyError(token, secret, t) ==
  IF ~IsCompact(token) THEN "JsonWebTokenError"
  ELSE IF token[1].key # secret THEN "JsonWebTokenError"
  ELSE IF token[1].nbf # None /\ Get(token[1].nbf) > t THEN "NotBeforeError"
  ELSE IF t >= token[1].exp THEN "TokenExpiredError"
  ELSE IF token[1].aud # Audience THEN "JsonWebTokenError"
  ELSE IF token[1].iss # Issuer THEN "JsonWebTokenError"
  ELSE ""

Claims(token) ==
  [payload |-> token[1].payload, iat |-> token[1].iat, exp |-> token[1].exp,
   iss |-> token[1].iss, aud |-> token[1].aud]

\* verifyToken without its TokenExpiredError branch
verifyToken_ExpiredAsInvalid(token, t) ==
  LET e == JwtVerifyError(token, JWT_SECRET, t) IN
  IF e = "" THEN [ok |-> TRUE, claims |-> Claims(token)]
  ELSE IF e \in {"JsonWebTokenError", "TokenExpiredError"}
    THEN [ok |-> FALSE, message |-> "Invalid token"]
  ELSE [ok |-> FALSE, message |-> "Token verification failed"]

\* verifyToken: [ok |-> TRUE, claims |-> ...] or [ok |-> FALSE, message |-> ...]
verifyToken(token, t) ==
  LET e == JwtVerifyError(token, JWT_SECRET, t) IN
  IF e = "" THEN [ok |-> TRUE, claims |-> Claims(token)]
  ELSE IF e = "TokenExpiredError" THEN [ok |-> FALSE, message |-> "Token has expired"]
  ELSE IF e = "JsonWebTokenError" THEN [ok |-> FALSE, message |-> "Invalid token"]
  ELSE [ok |-> FALSE, message |-> "Token verification failed"]

\* isTokenExpired(decodedToken) when Math.floor(Date.now() / 1000) is t; a
\* decoded token without exp, or with exp 0, has no expiration set
isTokenExpired(decodedToken, t) ==
  IF "exp" \notin DOMAIN decodedToken \/ decodedToken.exp = 0 THEN FALSE
  ELSE decodedToken.exp < t

startsWith(s, prefix) == Len(s) >= Len(prefix) /\ SubSeq(s, 1, Len(prefix)) = prefix

\* extractTokenFromHeader taking the marker in either case
extractTokenFromHeader_AnyCase(r) ==
  IF r.authorization = None THEN None
  ELSE LET authHeader == Get(r.authorization) IN
       IF authHeader = <<>> THEN None
       ELSE IF startsWith(authHeader, Bearer) \/ startsWith(authHeader, LowerBearer)
            THEN Some(SubSeq(authHeader, 8, Len(authHeader)))
            ELSE Some(authHeader)

\* extractTokenFromHeader: None for null, Some(string) otherwise
extractTokenFromHeader(r) ==
  IF r.authorization = None THEN None
  ELSE LET authHeader == Get(r.authorization) IN
       IF authHeader = <<>> THEN None
       ELSE IF startsWith(authHeader, Bearer)
            THEN Some(SubSeq(authHeader, 8, Len(authHeader)))
            ELSE Some(authHeader)

\* JavaScript truthiness of an optional string
Truthy(m) == m # None /\ Get(m) # <<>>

\* -------------------------------------------------------------- user store

UserRecord(u, role, active) ==
  [_id |-> ObjectId(u), email |-> Email(u), role |-> role, isActive |-> active]

\* User.findById(id): the values the awaited promise can settle to; id is cast
\* to an ObjectId, and the store is indexed by the hex digits of _id.
\* A rejected promise is [rejected |-> TRUE, message |-> ...].
DbError == "connect ECONNREFUSED 127.0.0.1:27017"
findById(id) ==
  { [rejected |-> FALSE, value |-> IF id \in DOMAIN users THEN users[id] ELSE None],
    [rejected |-> TRUE, message |-> DbError] }

\* ---------------------------------------------------------------- requests

\* A route is its chain of middleware: the authenticating middleware, the argument list of authorize (None when the chain has no
\* authorize), and whether requests to it carry a JSON body.
Route(auth, roles, hasBody) == [auth |-> auth, roles |-> roles, hasBody |-> hasBody]

Routes ==
  { Route("authenticate", None, FALSE),
    Route("authenticate", Some(<<"admin">>), FALSE),
    Route("authenticate", Some(<<"user", "admin">>), FALSE),
    Route("optionalAuth", None, FALSE),
    Route("optionalAuth", Some(<<"admin">>), FALSE),
    Route("verifyRefreshToken", None, TRUE) }

IdleReq ==
  [pc |-> "idle", route |-> Route("authenticate", None, FALSE),
   authorization |-> None, bodyParsed |-> TRUE, refreshToken |-> None,
   token |-> None, clock |-> None, decoded |-> None, found |-> None,
   error |-> None, reads |-> 0, aborted |-> FALSE,
   settled |-> None, storeAtContinue |-> None,
   user |-> None, reqToken |-> None, res |-> <<>>, nexts |-> <<>>]

json(r, by, status, message) ==
  [r EXCEPT !.res = Append(@, [by |-> by, status |-> status, success |-> FALSE,
                               message |-> message])]

callNext(r, by) == [r EXCEPT !.nexts = Append(@, by)]

\* the route handler of /api/protected and /api/admin
handler(r) ==
  [r EXCEPT !.res = Append(@, [by |-> "handler", status |-> 200, success |-> TRUE,
                               message |-> "ok"])]

\* Array.prototype.includes
includes(array, x) == \E i \in DOMAIN array : array[i] = x

\* Array.prototype.join
RECURSIVE join(_, _)
join(array, sep) ==
  IF array = <<>> THEN ""
  ELSE IF Len(array) = 1 THEN array[1]
  ELSE array[1] \o sep \o join(Tail(array), sep)

RequiredRole(allowedRoles) == "Access denied. Required role: " \o join(allowedRoles, " or ")

\* authorize with the membership test inverted
authorize_Inverted(allowedRoles, r) ==
  IF r.user = None
    THEN json(r, "authorize", 401, "Access denied. Authentication required.")
  ELSE IF includes(allowedRoles, Get(r.user).role)
    THEN json(r, "authorize", 403, RequiredRole(allowedRoles))
  ELSE handler(callNext(r, "authorize"))

\* authorize testing the role claim of req.token instead of req.user.role
authorize_TokenRole(allowedRoles, r) ==
  IF r.user = None
    THEN json(r, "authorize", 401, "Access denied. Authentication required.")
  ELSE IF ~includes(allowedRoles, Get(r.reqToken).payload.role)
    THEN json(r, "authorize", 403, RequiredRole(allowedRoles))
  ELSE handler(callNext(r, "authorize"))

\* authorize(...allowedRoles)(req, res, next), followed by what next() runs
authorize(allowedRoles, r) ==
  IF r.user = None
    THEN json(r, "authorize", 401, "Access denied. Authentication required.")
  ELSE IF ~includes(allowedRoles, Get(r.user).role)
    THEN json(r, "authorize", 403, RequiredRole(allowedRoles))
  ELSE handler(callNext(r, "authorize"))

\* what next() of the first middleware of the route runs
afterAuth(r) ==
  IF r.route.roles = None THEN handler(r)
  ELSE authorize(Get(r.route.roles), r)

done(r) == [r EXCEPT !.pc = "done"]

\* entering a catch block with the thrown Error's message
caught(r, message) == [r EXCEPT !.error = Some(message)]

\* error.message || fallback
orElse(message, fallback) == IF message = "" THEN fallback ELSE message

\* authenticate without its check of decoded.type
authenticateStart_NoKindCheck(r, t) ==
  LET token == extractTokenFromHeader(r) IN
  IF ~Truthy(token)
    THEN done(json(r, "authenticate", 401, "Access denied. No token provided."))
  ELSE LET v == verifyToken(Get(token), t)
           r1 == [r EXCEPT !.token = token, !.clock = Some(t)] IN
       IF ~v.ok THEN done(json(caught(r1, v.message), "authenticate", 401,
                   orElse(v.message, "Invalid token")))
       ELSE [r1 EXCEPT !.pc = "lookup", !.decoded = Some(v.claims),
                       !.reads = @ + 1]

\* authenticate calling next() before it awaits User.findById
authenticateStart_EarlyNext(r, t) ==
  LET token == extractTokenFromHeader(r) IN
  IF ~Truthy(token)
    THEN done(json(r, "authenticate", 401, "Access denied. No token provided."))
  ELSE LET v == verifyToken(Get(token), t)
           r1 == [r EXCEPT !.token = token, !.clock = Some(t)] IN
       IF ~v.ok THEN done(json(caught(r1, v.message), "authenticate", 401,
                   orElse(v.message, "Invalid token")))
       ELSE IF v.claims.payload.type # "access"
         THEN done(json(r1, "authenticate", 401, "Invalid token type. Access token required."))
       ELSE afterAuth(callNext([r1 EXCEPT !.pc = "lookup", !.decoded = Some(v.claims),
                                          !.reads = @ + 1], "authenticate"))

\* authenticate testing token === null instead of !token
authenticateStart_NullCheck(r, t) ==
  LET token == extractTokenFromHeader(r) IN
  IF token = None
    THEN done(json(r, "authenticate", 401, "Access denied. No token provided."))
  ELSE LET v == verifyToken(Get(token), t)
           r1 == [r EXCEPT !.token = token, !.clock = Some(t)] IN
       IF ~v.ok THEN done(json(caught(r1, v.message), "authenticate", 401,
                   orElse(v.message, "Invalid token")))
       ELSE IF v.claims.payload.type # "access"
         THEN done(json(r1, "authenticate", 401, "Invalid token type. Access token required."))
       ELSE [r1 EXCEPT !.pc = "lookup", !.decoded = Some(v.claims),
                       !.reads = @ + 1]

\* authenticate up to the await of User.findById
authenticateStart(r, t) ==
  LET token == extractTokenFromHeader(r) IN
  IF ~Truthy(token)
    THEN done(json(r, "authenticate", 401, "Access denied. No token provided."))
  ELSE LET v == verifyToken(Get(token), t)
           r1 == [r EXCEPT !.token = token, !.clock = Some(t)] IN
       IF ~v.ok THEN done(json(caught(r1, v.message), "authenticate", 401,
                   orElse(v.message, "Invalid token")))
       ELSE IF v.claims.payload.type # "access"
         THEN done(json(r1, "authenticate", 401, "Invalid token type. Access token required."))
       ELSE [r1 EXCEPT !.pc = "lookup", !.decoded = Some(v.claims),
                       !.reads = @ + 1]

\* authenticate turning down a token whose role claim the store no longer has
authenticateResume_RoleMustMatch(r, settled) ==
  IF settled.rejected
    THEN done(json(caught(r, settled.message), "authenticate", 401,
                   orElse(settled.message, "Invalid token")))
  ELSE LET r1 == [r EXCEPT !.found = settled.value] IN
       IF settled.value = None
         THEN done(json(r1, "authenticate", 401, "User not found. Token may be invalid."))
       ELSE IF ~Get(settled.value).isActive
         THEN done(json(r1, "authenticate", 401, "Account is deactivated."))
       ELSE IF Get(settled.value).role # Get(r.decoded).payload.role
         THEN done(json(r1, "authenticate", 401, "Invalid token"))
       ELSE done(afterAuth(callNext([r1 EXCEPT !.user = settled.value,
                                               !.reqToken = r.decoded],
                                    "authenticate")))

\* authenticate without its check of user.isActive
authenticateResume_NoActiveCheck(r, settled) ==
  IF settled.rejected
    THEN done(json(caught(r, settled.message), "authenticate", 401,
                   orElse(settled.message, "Invalid token")))
  ELSE LET r1 == [r EXCEPT !.found = settled.value] IN
       IF settled.value = None
         THEN done(json(r1, "authenticate", 401, "User not found. Token may be invalid."))
       ELSE done(afterAuth(callNext([r1 EXCEPT !.user = settled.value,
                                               !.reqToken = r.decoded],
                                    "authenticate")))

\* authenticate fetching the user a second time before attaching it
authenticateResume_ReadsAgain(r, settled) ==
  IF settled.rejected
    THEN done(json(caught(r, settled.message), "authenticate", 401,
                   orElse(settled.message, "Invalid token")))
  ELSE LET r1 == [r EXCEPT !.found = settled.value] IN
       IF settled.value = None
         THEN done(json(r1, "authenticate", 401, "User not found. Token may be invalid."))
       ELSE IF ~Get(settled.value).isActive
         THEN done(json(r1, "authenticate", 401, "Account is deactivated."))
       ELSE done(afterAuth(callNext([r1 EXCEPT !.user = settled.value,
                                               !.reqToken = r.decoded,
                                               !.reads = @ + 1],
                                    "authenticate")))

\* authenticate awaiting User.findById outside its try block
authenticateResume_Rethrow(r, settled) ==
  IF settled.rejected
    THEN done(caught(r, settled.message))
  ELSE LET r1 == [r EXCEPT !.found = settled.value] IN
       IF settled.value = None
         THEN done(json(r1, "authenticate", 401, "User not found. Token may be invalid."))
       ELSE IF ~Get(settled.value).isActive
         THEN done(json(r1, "authenticate", 401, "Account is deactivated."))
       ELSE done(afterAuth(callNext([r1 EXCEPT !.user = settled.value,
                                               !.reqToken = r.decoded],
                                    "authenticate")))

\* authenticate from the settling of User.findById to its end
authenticateResume(r, settled) ==
  IF settled.rejected
    THEN done(json(caught(r, settled.message), "authenticate", 401,
                   orElse(settled.message, "Invalid token")))
  ELSE LET r1 == [r EXCEPT !.found = settled.value] IN
       IF settled.value = None
         THEN done(json(r1, "authenticate", 401, "User not found. Token may be invalid."))
       ELSE IF ~Get(settled.value).isActive
         THEN done(json(r1, "authenticate", 401, "Account is deactivated."))
       ELSE done(afterAuth(callNext([r1 EXCEPT !.user = settled.value,
                                               !.reqToken = r.decoded],
                                    "authenticate")))

\* optionalAuth up to the await of User.findById
optionalAuthStart(r, t) ==
  LET token == extractTokenFromHeader(r) IN
  IF ~Truthy(token) THEN done(afterAuth(callNext(r, "optionalAuth")))
  ELSE LET v == verifyToken(Get(token), t)
           r1 == [r EXCEPT !.token = token, !.clock = Some(t)] IN
       IF ~v.ok THEN done(afterAuth(callNext(caught(r1, v.message), "optionalAuth")))
       ELSE IF v.claims.payload.type = "access"
         THEN [r1 EXCEPT !.pc = "lookup", !.decoded = Some(v.claims),
                       !.reads = @ + 1]
       ELSE done(afterAuth(callNext(r1, "optionalAuth")))

\* optionalAuth without its test of user.isActive
optionalAuthResume_NoActiveCheck(r, settled) ==
  IF settled.rejected
    THEN done(afterAuth(callNext(caught(r, settled.message), "optionalAuth")))
  ELSE LET r1 == [r EXCEPT !.found = settled.value] IN
       IF settled.value # None
         THEN done(afterAuth(callNext([r1 EXCEPT !.user = settled.value,
                                                 !.reqToken = r.decoded],
                                      "optionalAuth")))
       ELSE done(afterAuth(callNext(r1, "optionalAuth")))

\* optionalAuth from the settling of User.findById to its end
optionalAuthResume(r, settled) ==
  IF settled.rejected
    THEN done(afterAuth(callNext(caught(r, settled.message), "optionalAuth")))
  ELSE LET r1 == [r EXCEPT !.found = settled.value] IN
       IF settled.value # None /\ Get(settled.value).isActive
         THEN done(afterAuth(callNext([r1 EXCEPT !.user = settled.value,
                                                 !.reqToken = r.decoded],
                                      "optionalAuth")))
       ELSE done(afterAuth(callNext(r1, "optionalAuth")))

\* the message of the TypeError thrown by req.body.refreshToken when req.body
\* is undefined (no body parser has set it)
BodyTypeError == "Cannot read properties of undefined (reading 'refreshToken')"

\* verifyRefreshToken preferring the body field to the header
verifyRefreshTokenStart_BodyFirst(r, t) ==
  LET h == extractTokenFromHeader(r)
      token == IF Truthy(r.refreshToken) THEN r.refreshToken ELSE h IN
  IF ~r.bodyParsed
    THEN done(json(caught(r, BodyTypeError), "verifyRefreshToken", 401,
                   orElse(BodyTypeError, "Invalid refresh token")))
  ELSE IF ~Truthy(token)
    THEN done(json(r, "verifyRefreshToken", 401, "Refresh token required."))
  ELSE LET v == verifyToken(Get(token), t)
           r1 == [r EXCEPT !.token = token, !.clock = Some(t)] IN
       IF ~v.ok THEN done(json(caught(r1, v.message), "verifyRefreshToken", 401,
                   orElse(v.message, "Invalid refresh token")))
       ELSE IF v.claims.payload.type # "refresh"
         THEN done(json(r1, "verifyRefreshToken", 401,
                        "Invalid token type. Refresh token required."))
       ELSE [r1 EXCEPT !.pc = "lookup", !.decoded = Some(v.claims),
                       !.reads = @ + 1]

\* verifyRefreshToken up to the await of User.findById
verifyRefreshTokenStart(r, t) ==
  LET h == extractTokenFromHeader(r)
      token == IF Truthy(h) THEN h ELSE r.refreshToken IN
  IF ~Truthy(h) /\ ~r.bodyParsed
    THEN done(json(caught(r, BodyTypeError), "verifyRefreshToken", 401,
                   orElse(BodyTypeError, "Invalid refresh token")))
  ELSE IF ~Truthy(token)
    THEN done(json(r, "verifyRefreshToken", 401, "Refresh token required."))
  ELSE LET v == verifyToken(Get(token), t)
           r1 == [r EXCEPT !.token = token, !.clock = Some(t)] IN
       IF ~v.ok THEN done(json(caught(r1, v.message), "verifyRefreshToken", 401,
                   orElse(v.message, "Invalid refresh token")))
       ELSE IF v.claims.payload.type # "refresh"
         THEN done(json(r1, "verifyRefreshToken", 401,
                        "Invalid token type. Refresh token required."))
       ELSE [r1 EXCEPT !.pc = "lookup", !.decoded = Some(v.claims),
                       !.reads = @ + 1]

\* verifyRefreshToken with its test of user.isActive inverted
verifyRefreshTokenResume_InvertedActive(r, settled) ==
  IF settled.rejected
    THEN done(json(caught(r, settled.message), "verifyRefreshToken", 401,
                   orElse(settled.message, "Invalid refresh token")))
  ELSE LET r1 == [r EXCEPT !.found = settled.value] IN
       IF settled.value = None \/ Get(settled.value).isActive
         THEN done(json(r1, "verifyRefreshToken", 401,
                        "User not found or account deactivated."))
       ELSE done(afterAuth(callNext([r1 EXCEPT !.user = settled.value,
                                               !.reqToken = r.decoded],
                                    "verifyRefreshToken")))

\* verifyRefreshToken answering a missing and a deactivated user apart, as
\* authenticate does
verifyRefreshTokenResume_SplitMessages(r, settled) ==
  IF settled.rejected
    THEN done(json(caught(r, settled.message), "verifyRefreshToken", 401,
                   orElse(settled.message, "Invalid refresh token")))
  ELSE LET r1 == [r EXCEPT !.found = settled.value] IN
       IF settled.value = None
         THEN done(json(r1, "verifyRefreshToken", 401,
                        "User not found. Token may be invalid."))
       ELSE IF ~Get(settled.value).isActive
         THEN done(json(r1, "verifyRefreshToken", 401, "Account is deactivated."))
       ELSE done(afterAuth(callNext([r1 EXCEPT !.user = settled.value,
                                               !.reqToken = r.decoded],
                                    "verifyRefreshToken")))

\* verifyRefreshToken from the settling of User.findById to its end
verifyRefreshTokenResume(r, settled) ==
  IF settled.rejected
    THEN done(json(caught(r, settled.message), "verifyRefreshToken", 401,
                   orElse(settled.message, "Invalid refresh token")))
  ELSE LET r1 == [r EXCEPT !.found = settled.value] IN
       IF settled.value = None \/ ~Get(settled.value).isActive
         THEN done(json(r1, "verifyRefreshToken", 401,
                        "User not found or account deactivated."))
       ELSE done(afterAuth(callNext([r1 EXCEPT !.user = settled.value,
                                               !.reqToken = r.decoded],
                                    "verifyRefreshToken")))

\* ------------------------------------------------------------ what clients send

\* tokens not produced by this server's generateToken: signed with another key,
\* or signed with the shared secret by another party (for another audience, by
\* another issuer, or not valid before a later date), or not a token at all
ForgedTokens ==
  LET p == [userId |-> "u1", email |-> Email("u1"), role |-> "admin", type |-> "access"] IN
  { <<JwtSign(p, "attacker-key", 4 * JWT_EXPIRE, 0)>>,
    <<[JwtSign(p, JWT_SECRET, 4 * JWT_EXPIRE, 0) EXCEPT !.aud = "other-client"]>>,
    <<[JwtSign(p, JWT_SECRET, 4 * JWT_EXPIRE, 0) EXCEPT !.iss = "other-backend"]>>,
    <<[JwtSign(p, JWT_SECRET, 4 * JWT_EXPIRE, 0) EXCEPT !.nbf = Some(3 * JWT_EXPIRE)]>>,
    Garbage }

Credentials == issued \cup ForgedTokens

HeaderValues ==
  {None, Some(<<>>), Some(Bearer)}
    \cup {Some(Bearer \o c) : c \in Credentials}
    \cup {Some(c) : c \in issued}
    \cup {Some(LowerBearer \o c) : c \in issued}

\* no header, or an issued token as a Bearer credential
IssuedBearers == {None} \cup {Some(Bearer \o c) : c \in issued}

\* req.body: an object with or without the field refreshToken, or undefined
Body(parsed, refreshToken) == [parsed |-> parsed, refreshToken |-> refreshToken]

BodyValues(route) ==
  IF route.hasBody
    THEN {Body(TRUE, None), Body(FALSE, None)} \cup {Body(TRUE, Some(c)) : c \in issued}
    ELSE {Body(TRUE, None)}

\* ------------------------------------------------------------------ actions

Init ==
  /\ now = 0
  /\ ticks = 0
  /\ users = [u \in {"u1"} |-> Some(UserRecord(u, "user", TRUE))]
  /\ issued = {}
  /\ reqs = [r \in {"r1"} |-> IdleReq]
  /\ rejectedExpired = {}

Tick(d) ==
  /\ ticks < MaxTicks
  /\ now' = now + d
  /\ ticks' = ticks + 1
  /\ UNCHANGED <<users, issued, reqs, rejectedExpired>>

IssueAccess(u) ==
  /\ Cardinality(issued) < MaxIssued
  /\ users[u] # None
  /\ issued' = issued \cup {generateAccessToken(Get(users[u]), now)}
  /\ UNCHANGED <<now, ticks, users, reqs, rejectedExpired>>

IssueRefresh(u) ==
  /\ Cardinality(issued) < MaxIssued
  /\ users[u] # None
  /\ issued' = issued \cup {generateRefreshToken(Get(users[u]), now)}
  /\ UNCHANGED <<now, ticks, users, reqs, rejectedExpired>>

\* generateToken(payload, '-1s')
IssueExpired(u) ==
  /\ Cardinality(issued) < MaxIssued
  /\ users[u] # None
  /\ issued' = issued \cup
       {generateToken([userId |-> Get(users[u])._id, type |-> "refresh"], -1, now)}
  /\ UNCHANGED <<now, ticks, users, reqs, rejectedExpired>>

StoreWrite(u, value) ==
  /\ users[u] # value
  /\ users' = [users EXCEPT ![u] = value]
  /\ UNCHANGED <<now, ticks, issued, reqs, rejectedExpired>>

SetActive(u, active) ==
  /\ users[u] # None
  /\ StoreWrite(u, Some([Get(users[u]) EXCEPT !.isActive = active]))

SetRole(u, role) ==
  /\ users[u] # None
  /\ StoreWrite(u, Some([Get(users[u]) EXCEPT !.role = role]))

DeleteUser(u) == StoreWrite(u, None)

CreateUser(u, role) ==
  /\ users[u] = None
  /\ StoreWrite(u, Some(UserRecord(u, role, TRUE)))

\* a request whose verification threw 'Token has expired': its credential and
\* the time, unless that credential has been seen expired before
Expired(r) ==
  IF r.error = Some("Token has expired")
       /\ \A e \in rejectedExpired : Some(e.token) # r.token
  THEN {[token |-> Get(r.token), at |-> Get(r.clock)]}
  ELSE {}

\* the request as the first middleware of its route leaves it at its first
\* await, or at its end when it does not get that far
started(route, header, body, t) ==
  LET r == [IdleReq EXCEPT !.route = route, !.authorization = header,
                           !.bodyParsed = body.parsed,
                           !.refreshToken = body.refreshToken]
  IN CASE route.auth = "authenticate" -> authenticateStart(r, t)
       [] route.auth = "optionalAuth" -> optionalAuthStart(r, t)
       [] route.auth = "verifyRefreshToken" -> verifyRefreshTokenStart(r, t)

Start(id, route, header, body) ==
  /\ reqs[id].pc = "idle"
  /\ reqs' = [reqs EXCEPT ![id] = started(route, header, body, now)]
  /\ UNCHANGED <<now, ticks, users, issued, rejectedExpired>>

\* Start, with the history of expired rejections kept
StartRecorded(id, route, header, body) ==
  /\ reqs[id].pc = "idle"
  /\ reqs' = [reqs EXCEPT ![id] = started(route, header, body, now)]
  /\ rejectedExpired' = rejectedExpired \cup Expired(started(route, header, body, now))
  /\ UNCHANGED <<now, ticks, users, issued>>

\* Resume with the decoded claims kept in a variable of the module, which
\* every request at its await has overwritten
Resume_SharedDecoded(id) ==
  /\ reqs[id].pc = "lookup"
  /\ \E other \in DOMAIN reqs :
       /\ reqs[other].pc = "lookup"
       /\ \E settled \in findById(Get(reqs[other].decoded).payload.userId) :
            reqs' = [reqs EXCEPT ![id] =
                       authenticateResume([reqs[id] EXCEPT !.decoded = reqs[other].decoded],
                                          settled)]
  /\ UNCHANGED <<now, ticks, users, issued, rejectedExpired>>

Resume(id) ==
  /\ reqs[id].pc = "lookup"
  /\ \E settled \in findById(Get(reqs[id].decoded).payload.userId) :
       LET r == reqs[id]
           r2 == CASE r.route.auth = "authenticate" -> authenticateResume(r, settled)
                   [] r.route.auth = "optionalAuth" -> optionalAuthResume(r, settled)
                   [] r.route.auth = "verifyRefreshToken" -> verifyRefreshTokenResume(r, settled)
       IN reqs' = [reqs EXCEPT ![id] = r2]
  /\ UNCHANGED <<now, ticks, users, issued, rejectedExpired>>

\* the response has been written and the request object is dropped
Close(id) ==
  /\ reqs[id].pc = "done"
  /\ reqs' = [reqs EXCEPT ![id] = IdleReq]
  /\ UNCHANGED <<now, ticks, users, issued, rejectedExpired>>

\* the lookup never settles (the connection to the store hangs): the request
\* is never resumed and its object is dropped
Abort(id) ==
  /\ reqs[id].pc = "lookup"
  /\ reqs' = [reqs EXCEPT ![id] = IdleReq]
  /\ UNCHANGED <<now, ticks, users, issued, rejectedExpired>>

Next ==
  \/ \E d \in TickSteps : Tick(d)
  \/ \E u \in DOMAIN users : IssueAccess(u)
  \/ \E u \in DOMAIN users : IssueRefresh(u)
  \/ \E u \in DOMAIN users : IssueExpired(u)
  \/ \E u \in DOMAIN users, a \in BOOLEAN : SetActive(u, a)
  \/ \E u \in DOMAIN users, role \in Roles : SetRole(u, role)
  \/ \E u \in DOMAIN users : DeleteUser(u)
  \/ \E u \in DOMAIN users, role \in Roles : CreateUser(u, role)
  \/ \E id \in DOMAIN reqs, route \in Routes, h \in HeaderValues :
       \E b \in BodyValues(route) : Start(id, route, h, b)
  \/ \E id \in DOMAIN reqs : Resume(id)
  \/ \E id \in DOMAIN reqs : Close(id)
  \/ \E id \in DOMAIN reqs : Abort(id)

Spec == Init /\ [][Next]_vars

\* the client closes the connection while the lookup is pending: the request
\* is marked, and nothing in the middleware reads the mark
Disconnect(id) ==
  /\ reqs[id].pc = "lookup" /\ ~reqs[id].aborted
  /\ reqs' = [reqs EXCEPT ![id].aborted = TRUE]
  /\ UNCHANGED <<now, ticks, users, issued, rejectedExpired>>

\* Two requests in flight at once to /api/protected and /api/admin, each
\* carrying the access token of one of two users or no credential, while the
\* store's owner changes the users.
ConcurrentRoutes ==
  {Route("authenticate", None, FALSE), Route("authenticate", Some(<<"admin">>), FALSE)}

InitConcurrent ==
  /\ now = 0
  /\ ticks = 0
  /\ users = [u \in UserIds |->
                Some(UserRecord(u, IF u = "u1" THEN "user" ELSE "admin", TRUE))]
  /\ issued = {generateAccessToken(UserRecord("u1", "user", TRUE), 0),
               generateAccessToken(UserRecord("u2", "admin", TRUE), 0)}
  /\ reqs = [r \in {"r1", "r2"} |-> IdleReq]
  /\ rejectedExpired = {}

NextConcurrent ==
  \/ \E u \in DOMAIN users, a \in BOOLEAN : SetActive(u, a)
  \/ \E u \in DOMAIN users, role \in Roles : SetRole(u, role)
  \/ \E u \in DOMAIN users : DeleteUser(u)
  \/ \E id \in DOMAIN reqs, route \in ConcurrentRoutes, h \in IssuedBearers :
       Start(id, route, h, Body(TRUE, None))
  \/ \E id \in DOMAIN reqs : Resume(id)
  \/ \E id \in DOMAIN reqs : Disconnect(id)
  \/ \E id \in DOMAIN reqs : Close(id)

SpecConcurrent == InitConcurrent /\ [][NextConcurrent]_vars

\* The server with the history of expired rejections kept, for requests that
\* carry an issued token as a Bearer credential, or none, to /api/protected
\* and to the refresh route.
HistoryRoutes ==
  {Route("authenticate", None, FALSE), Route("verifyRefreshToken", None, TRUE)}

NextHistory ==
  \/ \E d \in TickSteps : Tick(d)
  \/ \E u \in DOMAIN users : IssueAccess(u)
  \/ \E u \in DOMAIN users : IssueRefresh(u)
  \/ \E u \in DOMAIN users : IssueExpired(u)
  \/ \E u \in DOMAIN users, a \in BOOLEAN : SetActive(u, a)
  \/ \E u \in DOMAIN users, role \in Roles : SetRole(u, role)
  \/ \E u \in DOMAIN users : DeleteUser(u)
  \/ \E u \in DOMAIN users, role \in Roles : CreateUser(u, role)
  \/ \E id \in DOMAIN reqs, route \in HistoryRoutes, h \in IssuedBearers :
       StartRecorded(id, route, h, Body(TRUE, None))
  \/ \E id \in DOMAIN reqs : Resume(id)
  \/ \E id \in DOMAIN reqs : Close(id)
  \/ \E id \in DOMAIN reqs : Abort(id)

SpecHistory == Init /\ [][NextHistory]_vars

\* The await of User.findById in two steps: the store answers the query, and
\* later the event loop runs the rest of authenticate, authorize and the
\* handler in one turn.  The store's owner may write between the two.
Settle(id) ==
  /\ reqs[id].pc = "lookup"
  /\ \E settled \in findById(Get(reqs[id].decoded).payload.userId) :
       reqs' = [reqs EXCEPT ![id].pc = "settled", ![id].settled = Some(settled)]
  /\ UNCHANGED <<now, ticks, users, issued, rejectedExpired>>

\* the continuation asking the store again instead of using the answer it
\* was resumed with
Continue_Refetch(id) ==
  /\ reqs[id].pc = "settled"
  /\ \E settled \in findById(Get(reqs[id].decoded).payload.userId) :
       reqs' = [reqs EXCEPT ![id] =
                  [authenticateResume(reqs[id], settled) EXCEPT
                     !.storeAtContinue =
                        Some(users[Get(reqs[id].decoded).payload.userId])]]
  /\ UNCHANGED <<now, ticks, users, issued, rejectedExpired>>

\* storeAtContinue records what the store holds for the token's subject when
\* the continuation runs; the code never reads it
Continue(id) ==
  /\ reqs[id].pc = "settled"
  /\ reqs' = [reqs EXCEPT ![id] =
                [authenticateResume(reqs[id], Get(reqs[id].settled)) EXCEPT
                   !.storeAtContinue =
                      Some(users[Get(reqs[id].decoded).payload.userId])]]
  /\ UNCHANGED <<now, ticks, users, issued, rejectedExpired>>

\* Two requests to /api/protected and /api/admin carrying the access token of
\* one admin, or no credential, while the store's owner changes that user.
InitStale ==
  /\ now = 0
  /\ ticks = 0
  /\ users = [u \in {"u1"} |-> Some(UserRecord(u, "admin", TRUE))]
  /\ issued = {generateAccessToken(UserRecord("u1", "admin", TRUE), 0)}
  /\ reqs = [r \in {"r1", "r2"} |-> IdleReq]
  /\ rejectedExpired = {}

NextStale ==
  \/ \E u \in DOMAIN users, a \in BOOLEAN : SetActive(u, a)
  \/ \E u \in DOMAIN users, role \in Roles : SetRole(u, role)
  \/ \E u \in DOMAIN users : DeleteUser(u)
  \/ \E u \in DOMAIN users, role \in Roles : CreateUser(u, role)
  \/ \E id \in DOMAIN reqs, route \in ConcurrentRoutes, h \in IssuedBearers :
       Start(id, route, h, Body(TRUE, None))
  \/ \E id \in DOMAIN reqs : Settle(id)
  \/ \E id \in DOMAIN reqs : Continue(id)
  \/ \E id \in DOMAIN reqs : Close(id)

SpecStale == InitStale /\ [][NextStale]_vars

\* ------------------------------------------------------- reading a request

Count(seq, x) == Cardinality({i \in DOMAIN seq : seq[i] = x})
ResponsesBy(r, by) == {i \in DOMAIN r.res : r.res[i].by = by}
NextCalls(r, by) == Count(r.nexts, by)

HasIdentity(r) == r.user # None \/ r.reqToken # None
Terminal401(r, by) ==
  /\ Len(r.res) = 1 /\ r.res[1].by = by /\ r.res[1].status = 401
  /\ ~r.res[1].success
  /\ ~HasIdentity(r) /\ r.nexts = <<>>
Message(r) == r.res[1].message
HandlerReached(r) == ResponsesBy(r, "handler") # {}

\* the credential the middleware went on to verify is the token string c
Presents(r, c) == r.token = Some(c)

FromGenerateRefreshToken(c) ==
  /\ c \in issued
  /\ DOMAIN c[1].payload = {"userId", "type"} /\ c[1].payload.type = "refresh"
  /\ c[1].exp = c[1].iat + JWT_EXPIRE
FromGenerateAccessToken(c) ==
  /\ c \in issued
  /\ DOMAIN c[1].payload = {"userId", "email", "role", "type"}
  /\ c[1].payload.type = "access"
  /\ c[1].exp = c[1].iat + AccessTtl

Answered == {id \in DOMAIN reqs : reqs[id].pc = "done"}
Running == {id \in DOMAIN reqs : reqs[id].pc # "idle"}

\* ------------------------------------------------------------------ claims

\* C1: kind isolation.  A token made by generateRefreshToken that authenticate
\* takes as its credential always ends in a single 401 with no identity attached
\* and next not called, and so does a token made by generateAccessToken that
\* verifyRefreshToken takes as its credential; the request never waits for a
\* user lookup, so the state of the user store plays no part.
C1_KindIsolation ==
  \A id \in Running : \A c \in issued :
    LET r == reqs[id] IN
    Presents(r, c) =>
      /\ (r.route.auth = "authenticate" /\ FromGenerateRefreshToken(c))
           => Terminal401(r, "authenticate")
      /\ (r.route.auth = "verifyRefreshToken" /\ FromGenerateAccessToken(c))
           => Terminal401(r, "verifyRefreshToken")

\* C1 witness: authenticate has turned down an unexpired refresh token for its
\* kind while the token's user exists and is active.
C1_Witness ==
  \E id \in Answered : \E c \in issued :
    /\ reqs[id].route.auth = "authenticate" /\ Presents(reqs[id], c)
    /\ FromGenerateRefreshToken(c) /\ Get(reqs[id].clock) < c[1].exp
    /\ users[c[1].payload.userId] # None /\ Get(users[c[1].payload.userId]).isActive
    /\ Message(reqs[id]) = "Invalid token type. Access token required."

\* the condition under which authenticate lets a request through
AuthenticateAccepts(r) ==
  /\ Truthy(extractTokenFromHeader(r))
  /\ JwtVerifyError(Get(extractTokenFromHeader(r)), JWT_SECRET, Get(r.clock)) = ""
  /\ Get(extractTokenFromHeader(r))[1].payload.type = "access"
  /\ r.found # None
  /\ Get(r.found).isActive

AuthenticateSuccess(r) ==
  /\ r.user # None /\ r.reqToken # None
  /\ NextCalls(r, "authenticate") = 1
  /\ ResponsesBy(r, "authenticate") = {}

\* C2: every finished run of authenticate either attached req.user and req.token
\* and called next exactly once without responding, or sent exactly one 401,
\* attached nothing and never called next; the first happens exactly when a
\* credential is present, verifies, is of type access, and the lookup returned an
\* active user.  An inactive user's valid access token attaches no identity.
C2_AuthenticateOutcome ==
  \A id \in Answered :
    LET r == reqs[id] IN
    r.route.auth = "authenticate" =>
      /\ AuthenticateSuccess(r) <=> AuthenticateAccepts(r)
      /\ AuthenticateSuccess(r) \/ Terminal401(r, "authenticate")
      /\ ~(AuthenticateSuccess(r) /\ Terminal401(r, "authenticate"))
      /\ (r.found # None /\ ~Get(r.found).isActive) => ~HasIdentity(r)

\* C2 witness: a valid access token of a deactivated user has been answered 401.
C2_Witness ==
  \E id \in Answered : \E c \in issued :
    /\ reqs[id].route.auth = "authenticate" /\ Presents(reqs[id], c)
    /\ FromGenerateAccessToken(c) /\ Get(reqs[id].clock) < c[1].exp
    /\ reqs[id].found # None /\ ~Get(reqs[id].found).isActive
    /\ Terminal401(reqs[id], "authenticate")

\* the failure reasons of authenticate, in the order of its checks
AuthenticateReason(r) ==
  LET cred == extractTokenFromHeader(r) IN
  IF ~Truthy(cred) THEN "Access denied. No token provided."
  ELSE LET e == JwtVerifyError(Get(cred), JWT_SECRET, Get(r.clock)) IN
       IF e = "TokenExpiredError" THEN "Token has expired"
       ELSE IF e = "JsonWebTokenError" THEN "Invalid token"
       ELSE IF e # "" THEN "Token verification failed"
       ELSE IF Get(cred)[1].payload.type # "access"
         THEN "Invalid token type. Access token required."
       ELSE IF r.found = None THEN "User not found. Token may be invalid."
       ELSE IF ~Get(r.found).isActive THEN "Account is deactivated."
       ELSE ""

AuthenticateReasons ==
  { "Access denied. No token provided.", "Token has expired", "Invalid token",
    "Token verification failed", "Invalid token type. Access token required.",
    "User not found. Token may be invalid.", "Account is deactivated." }

\* C3 (amended): when authenticate fails (and the user lookup itself did not
\* fault) its single response has status 401 and carries the reason of the first
\* failing check in the order: no credential; verification fails as expired;
\* verification fails with a JsonWebTokenError -> 'Invalid token'; verification
\* fails any other way (a token not yet valid) -> 'Token verification failed';
\* wrong kind; user not found; account deactivated.  The seven reasons are
\* pairwise distinct.
C3_FirstFailingCheck ==
  /\ Cardinality(AuthenticateReasons) = 7
  /\ \A id \in Answered :
       LET r == reqs[id] IN
       (r.route.auth = "authenticate" /\ r.error # Some(DbError)) =>
          IF AuthenticateReason(r) = "" THEN ResponsesBy(r, "authenticate") = {}
          ELSE /\ Terminal401(r, "authenticate")
               /\ Message(r) = AuthenticateReason(r)
               /\ Message(r) \in AuthenticateReasons

\* the reasons as C3 lists them: every verification failure other than expiry
\* is reported as 'Invalid token'
ClaimedReason(r) ==
  IF AuthenticateReason(r) = "Token verification failed" THEN "Invalid token"
  ELSE AuthenticateReason(r)

\* C3 as stated: six reasons, with 'Invalid token' for every verification
\* failure that is not an expiry.
C3_AsStated ==
  \A id \in Answered :
    LET r == reqs[id] IN
    (r.route.auth = "authenticate" /\ r.error # Some(DbError)
       /\ ClaimedReason(r) # "") =>
         /\ Terminal401(r, "authenticate")
         /\ Message(r) = ClaimedReason(r)

\* C3 witness: an expired refresh token has been reported as expired.
C3_Witness ==
  \E id \in Answered : \E c \in issued :
    /\ reqs[id].route.auth = "authenticate" /\ Presents(reqs[id], c)
    /\ c[1].payload.type = "refresh" /\ Get(reqs[id].clock) >= c[1].exp
    /\ Message(reqs[id]) = "Token has expired"

\* C3 second witness: a refresh token of a user who no longer exists has been
\* reported as being of the wrong kind.
C3_WitnessWrongKindNoUser ==
  \E id \in Answered : \E c \in issued :
    /\ reqs[id].route.auth = "authenticate" /\ Presents(reqs[id], c)
    /\ c[1].payload.type = "refresh" /\ users[c[1].payload.userId] = None
    /\ Message(reqs[id]) = "Invalid token type. Access token required."

\* authorize has been run on the request: the route has one and the middleware
\* before it called next
AuthorizeRan(r) == r.route.roles # None /\ NextCalls(r, r.route.auth) = 1

AuthorizeRejects(r, status, message) ==
  /\ \E i \in DOMAIN r.res :
       /\ ResponsesBy(r, "authorize") = {i}
       /\ r.res[i].status = status /\ r.res[i].message = message
       /\ ~r.res[i].success
  /\ NextCalls(r, "authorize") = 0
  /\ ~HandlerReached(r)

AuthorizeProceeds(r) ==
  /\ ResponsesBy(r, "authorize") = {}
  /\ NextCalls(r, "authorize") = 1

\* what authorize owes a request that reached it
AllowedRoles(r) == {Get(r.route.roles)[i] : i \in DOMAIN Get(r.route.roles)}

AuthorizeOutcome(r) ==
  /\ IF r.user = None
       THEN AuthorizeRejects(r, 401, "Access denied. Authentication required.")
     ELSE IF Get(r.user).role \notin AllowedRoles(r)
       THEN AuthorizeRejects(r, 403, RequiredRole(Get(r.route.roles)))
     ELSE AuthorizeProceeds(r)
  /\ (AllowedRoles(r) = {"admin"} /\ r.user # None) =>
       /\ Get(r.user).role = "user" =>
            AuthorizeRejects(r, 403, "Access denied. Required role: admin")
       /\ Get(r.user).role = "admin" => AuthorizeProceeds(r)
  \* the identity is the one the middleware before it attached
  /\ r.user \in {None, r.found}
  /\ r.reqToken = (IF r.user = None THEN None ELSE r.decoded)

\* C4: a step in which authorize runs answers 401 'authentication required'
\* without calling next when no identity is attached, answers 403 without
\* calling next when the attached user's role is not among the allowed roles,
\* and otherwise calls next exactly once and sends nothing; it leaves the
\* request's identity and the user store as they were.  With {admin} allowed,
\* role 'user' gets 403 and role 'admin' proceeds.
C4_Authorize ==
  [][\A id \in DOMAIN reqs :
       (reqs[id].pc # "done" /\ reqs'[id].pc = "done" /\ AuthorizeRan(reqs'[id]))
         => (AuthorizeOutcome(reqs'[id]) /\ users' = users)]_vars

\* C4 witness: authorize('admin') has answered 403 to an authenticated user of
\* role 'user'.
C4_Witness ==
  \E id \in Answered :
    /\ AuthorizeRan(reqs[id]) /\ AllowedRoles(reqs[id]) = {"admin"}
    /\ reqs[id].user # None /\ Get(reqs[id].user).role = "user"
    /\ AuthorizeRejects(reqs[id], 403, "Access denied. Required role: admin")

\* C4 second witness: authorize has answered 401 to a request without identity.
C4_WitnessAnonymous ==
  \E id \in Answered :
    /\ AuthorizeRan(reqs[id]) /\ reqs[id].user = None
    /\ AuthorizeRejects(reqs[id], 401, "Access denied. Authentication required.")

\* C5: on a route authenticate -> authorize(roles) -> handler, the handler is
\* reached only by a request whose credential is signed with the server secret,
\* unexpired when verified, of type access, and whose subject the lookup found
\* as an active user with a role in roles.  An access token issued to an active
\* user of role 'user' passes authenticate; authorize('admin') then answers 403
\* and the handler is not reached, authorize('user','admin') reaches the handler.
C5_GuardedRoute ==
  \A id \in Answered :
    LET r == reqs[id] IN
    (r.route.auth = "authenticate" /\ r.route.roles # None) =>
      /\ HandlerReached(r) =>
           /\ r.token # None /\ IsCompact(Get(r.token))
           /\ Get(r.token)[1].key = JWT_SECRET
           /\ Get(r.token)[1].iss = Issuer /\ Get(r.token)[1].aud = Audience
           /\ Get(r.clock) < Get(r.token)[1].exp
           /\ Get(r.token)[1].payload.type = "access"
           /\ r.found # None /\ Get(r.found).isActive
           /\ Get(r.found)._id = ObjectId(Get(r.token)[1].payload.userId)
           /\ Get(r.found).role \in AllowedRoles(r)
      /\ \A c \in issued :
           ( /\ Presents(r, c) /\ FromGenerateAccessToken(c)
             /\ c[1].payload.role = "user" /\ Get(r.clock) < c[1].exp
             /\ r.found # None /\ Get(r.found).isActive
             /\ Get(r.found).role = "user" ) =>
               /\ AuthenticateSuccess(r)
               /\ AllowedRoles(r) = {"admin"} =>
                    (AuthorizeRejects(r, 403, "Access denied. Required role: admin")
                       /\ ~HandlerReached(r))
               /\ AllowedRoles(r) = {"user", "admin"} => HandlerReached(r)

\* C5 witness: the access token of an active 'user' has passed authenticate and
\* been stopped by authorize('admin') with 403.
C5_Witness ==
  \E id \in Answered : \E c \in issued :
    /\ reqs[id].route = Route("authenticate", Some(<<"admin">>), FALSE)
    /\ Presents(reqs[id], c) /\ FromGenerateAccessToken(c)
    /\ c[1].payload.role = "user"
    /\ AuthenticateSuccess(reqs[id])
    /\ AuthorizeRejects(reqs[id], 403, "Access denied. Required role: admin")

\* C5 second witness: the same token has reached the handler behind
\* authorize('user', 'admin').
C5_WitnessHandler ==
  \E id \in Answered : \E c \in issued :
    /\ reqs[id].route = Route("authenticate", Some(<<"user", "admin">>), FALSE)
    /\ Presents(reqs[id], c) /\ FromGenerateAccessToken(c)
    /\ c[1].payload.role = "user"
    /\ HandlerReached(reqs[id]) /\ Get(reqs[id].user).role = "user"

\* the condition under which optionalAuth attaches an identity
OptionalAuthAttaches(r) ==
  /\ Truthy(extractTokenFromHeader(r))
  /\ JwtVerifyError(Get(extractTokenFromHeader(r)), JWT_SECRET, Get(r.clock)) = ""
  /\ Get(extractTokenFromHeader(r))[1].payload.type = "access"
  /\ r.found # None
  /\ Get(r.found).isActive

\* C6: optionalAuth never answers a request itself and never calls next while
\* the lookup is pending; when it has finished it has called next exactly once,
\* and it has attached req.user and req.token exactly when the token verified,
\* was of type access and the lookup found an active user; after every failure
\* the request carries no identity.
C6_OptionalAuth ==
  \A id \in Running :
    LET r == reqs[id] IN
    r.route.auth = "optionalAuth" =>
      /\ ResponsesBy(r, "optionalAuth") = {}
      /\ NextCalls(r, "optionalAuth") = (IF r.pc = "done" THEN 1 ELSE 0)
      /\ r.pc = "done" =>
           /\ HasIdentity(r) <=> OptionalAuthAttaches(r)
           /\ HasIdentity(r) => (r.user = r.found /\ r.reqToken = r.decoded)
           /\ r.error # None => ~HasIdentity(r)

\* C6 witness: optionalAuth has let a request with an expired token through
\* without identity.
C6_Witness ==
  \E id \in Answered :
    /\ reqs[id].route.auth = "optionalAuth"
    /\ reqs[id].error = Some("Token has expired")
    /\ NextCalls(reqs[id], "optionalAuth") = 1 /\ ~HasIdentity(reqs[id])

\* C6 second witness: optionalAuth has let the token of a deactivated user
\* through without identity.
C6_WitnessInactive ==
  \E id \in Answered :
    /\ reqs[id].route.auth = "optionalAuth"
    /\ reqs[id].found # None /\ ~Get(reqs[id].found).isActive
    /\ NextCalls(reqs[id], "optionalAuth") = 1 /\ ~HasIdentity(reqs[id])

RefreshSuccess(r) ==
  /\ r.user # None /\ r.user = r.found /\ r.reqToken = r.decoded
  /\ NextCalls(r, "verifyRefreshToken") = 1
  /\ ResponsesBy(r, "verifyRefreshToken") = {}

\* C7 (amended): verifyRefreshToken takes its credential from the Authorization
\* header whenever the header yields a non-empty credential, even when the body
\* field holds a valid refresh token; it uses the body field when the header is
\* absent or yields an empty credential ('Bearer ' alone); and when neither
\* yields a credential (the body is an object without the field) it answers
\* 401 'Refresh token required.' without attaching an identity or calling next.
C7_RefreshCredential ==
  \A id \in Running :
    LET r == reqs[id]
        h == extractTokenFromHeader(r) IN
    r.route.auth = "verifyRefreshToken" =>
      /\ Truthy(h) => r.token = h
      /\ (~Truthy(h) /\ Truthy(r.refreshToken)) => r.token = r.refreshToken
      /\ (~Truthy(h) /\ r.bodyParsed /\ ~Truthy(r.refreshToken)) =>
           (Terminal401(r, "verifyRefreshToken") /\ Message(r) = "Refresh token required.")

\* C7 as stated: whenever the header is present the credential verified, if
\* any, is the header's; the body field is used only when the header is absent.
C7_AsStated ==
  \A id \in Running :
    LET r == reqs[id] IN
    r.route.auth = "verifyRefreshToken" =>
      /\ r.authorization # None => r.token \in {None, extractTokenFromHeader(r)}
      /\ (r.authorization = None /\ r.refreshToken # None) => r.token = r.refreshToken
      /\ (r.authorization = None /\ r.bodyParsed /\ r.refreshToken = None) =>
           (Terminal401(r, "verifyRefreshToken") /\ Message(r) = "Refresh token required.")

\* C7 witness: a request whose body holds a valid refresh token of an active
\* user has been turned down for the credential in its header.
C7_Witness ==
  \E id \in Answered : \E c \in issued :
    /\ reqs[id].route.auth = "verifyRefreshToken"
    /\ reqs[id].refreshToken = Some(c) /\ FromGenerateRefreshToken(c)
    /\ Get(reqs[id].clock) < c[1].exp
    /\ users[c[1].payload.userId] # None /\ Get(users[c[1].payload.userId]).isActive
    /\ reqs[id].token = extractTokenFromHeader(reqs[id])
    /\ Terminal401(reqs[id], "verifyRefreshToken")

\* C7 second witness: the body field has been used under a header that is
\* 'Bearer ' alone.
C7_WitnessEmptyBearer ==
  \E id \in Answered :
    /\ reqs[id].route.auth = "verifyRefreshToken"
    /\ reqs[id].authorization = Some(Bearer)
    /\ reqs[id].token # None /\ reqs[id].token = reqs[id].refreshToken
    /\ RefreshSuccess(reqs[id])

\* C8: a token made by generateRefreshToken that verifyRefreshToken verifies
\* when its ttl has elapsed gets a single 401 'Token has expired', no identity
\* and no next; verified before its expiry, with the lookup finding its user
\* active, it gets its user and claims attached and next called once.
C8_RefreshExpiry ==
  \A id \in Running : \A c \in issued :
    LET r == reqs[id] IN
    (r.route.auth = "verifyRefreshToken" /\ Presents(r, c) /\ FromGenerateRefreshToken(c)) =>
      /\ Get(r.clock) >= c[1].iat + JWT_EXPIRE =>
           (Terminal401(r, "verifyRefreshToken") /\ Message(r) = "Token has expired")
      /\ (Get(r.clock) < c[1].iat + JWT_EXPIRE /\ r.pc = "done"
            /\ r.found # None /\ Get(r.found).isActive) =>
           /\ RefreshSuccess(r)
           /\ Get(r.user)._id = ObjectId(c[1].payload.userId)
           /\ r.reqToken = Some(Claims(c))

\* C8 witness: verifyRefreshToken has answered 'Token has expired' to an issued
\* refresh token whose user exists and is active.
C8_Witness ==
  \E id \in Answered : \E c \in issued :
    /\ reqs[id].route.auth = "verifyRefreshToken"
    /\ Presents(reqs[id], c) /\ FromGenerateRefreshToken(c)
    /\ Get(reqs[id].clock) >= c[1].iat + JWT_EXPIRE
    /\ users[c[1].payload.userId] # None /\ Get(users[c[1].payload.userId]).isActive
    /\ Message(reqs[id]) = "Token has expired"

\* C8 second witness: the same kind of token has been accepted before expiry.
C8_WitnessAccepted ==
  \E id \in Answered : \E c \in issued :
    /\ reqs[id].route.auth = "verifyRefreshToken"
    /\ Presents(reqs[id], c) /\ FromGenerateRefreshToken(c)
    /\ RefreshSuccess(reqs[id])

\* a token signed with the server secret that names this issuer and audience
WellSigned(c) ==
  /\ IsCompact(c) /\ c[1].key = JWT_SECRET
  /\ c[1].iss = Issuer /\ c[1].aud = Audience

\* C9 (amended): verifyToken, applied at time t to a token signed with the
\* server secret and carrying the right issuer and audience, throws 'Token has
\* expired' exactly when t >= exp (from the second exp on, that second
\* included); a token issued with a ttl of -1 s always gets 'Token has
\* expired' and never 'Invalid token'.
C9_ExpiredIff ==
  \A id \in Running :
    LET r == reqs[id] IN
    (r.token # None /\ WellSigned(Get(r.token))) =>
      /\ r.error = Some("Token has expired") <=> Get(r.clock) >= Get(r.token)[1].exp
      /\ (Get(r.token) \in issued /\ Get(r.token)[1].exp < Get(r.token)[1].iat) =>
           r.error = Some("Token has expired")

\* C9 as stated: 'Token has expired' exactly when t > exp.
C9_AsStated ==
  \A id \in Running :
    LET r == reqs[id] IN
    (r.token # None /\ WellSigned(Get(r.token))) =>
      /\ r.error = Some("Token has expired") <=> Get(r.clock) > Get(r.token)[1].exp
      /\ (Get(r.token) \in issued /\ Get(r.token)[1].exp < Get(r.token)[1].iat) =>
           r.error = Some("Token has expired")

\* C9 witness: a token has been verified in the very second of its exp and
\* found expired.
C9_Witness ==
  \E id \in Answered :
    /\ reqs[id].token # None /\ Get(reqs[id].token) \in issued
    /\ Get(reqs[id].clock) = Get(reqs[id].token)[1].exp
    /\ reqs[id].error = Some("Token has expired")

\* C9 second witness: a token issued with a ttl of -1 s has been found expired.
C9_WitnessNegativeTtl ==
  \E id \in Answered :
    /\ reqs[id].token # None /\ Get(reqs[id].token) \in issued
    /\ Get(reqs[id].token)[1].exp = Get(reqs[id].token)[1].iat - 1
    /\ reqs[id].error = Some("Token has expired")

C10_WitnessExpiredAgain ==
  \E id \in Answered : \E e \in rejectedExpired :
    /\ Presents(reqs[id], e.token) /\ Get(reqs[id].clock) > e.at
    /\ reqs[id].error = Some("Token has expired")

\* C10 third witness: an access token has been accepted although the role in
\* its claims is no longer the role in the store.
C10_WitnessRoleChanged ==
  \E id \in Answered : \E c \in issued :
    /\ reqs[id].route.auth = "authenticate"
    /\ Presents(reqs[id], c) /\ FromGenerateAccessToken(c)
    /\ AuthenticateSuccess(reqs[id])
    /\ Get(reqs[id].user).role # c[1].payload.role

\* the checks authenticate makes before it calls User.findById all pass
ReachesLookup(r) ==
  /\ Truthy(extractTokenFromHeader(r))
  /\ JwtVerifyError(Get(extractTokenFromHeader(r)), JWT_SECRET, Get(r.clock)) = ""
  /\ Get(extractTokenFromHeader(r))[1].payload.type = "access"

\* C11 (amended): no step of a request writes the user store, and a run of
\* authenticate calls User.findById at most once: exactly once when a
\* credential is present, verifies and is of type access, and not at all when
\* the request has no credential, an expired or invalid token, or a token of
\* the wrong kind.
C11_StoreAccess ==
  /\ [](\A id \in Running :
         reqs[id].route.auth = "authenticate" =>
           reqs[id].reads = (IF ReachesLookup(reqs[id]) THEN 1 ELSE 0))
  /\ [][reqs' # reqs => users' = users]_vars

\* C11 as stated: every finished run of authenticate has read the user store
\* exactly once.
C11_AsStated ==
  \A id \in Answered :
    reqs[id].route.auth = "authenticate" => reqs[id].reads = 1

\* C11 witness: authenticate has accepted a request after one read of the store.
C11_Witness ==
  \E id \in Answered :
    /\ reqs[id].route.auth = "authenticate"
    /\ AuthenticateSuccess(reqs[id]) /\ reqs[id].reads = 1

\* C11 second witness: authenticate has turned down an expired token without
\* reading the store.
C11_WitnessNoRead ==
  \E id \in Answered :
    /\ reqs[id].route.auth = "authenticate"
    /\ reqs[id].error = Some("Token has expired") /\ reqs[id].reads = 0

\* C12: whenever an error is thrown inside authenticate or verifyRefreshToken
\* (verifyToken fails, the promise of User.findById is rejected, or reading
\* req.body faults) the middleware has finished, its single response is a 401
\* {success: false, message} carrying the error's message, no identity is
\* attached and next has not been called.
C12_ErrorsRecovered ==
  \A id \in Running :
    LET r == reqs[id] IN
    (r.route.auth \in {"authenticate", "verifyRefreshToken"} /\ r.error # None) =>
      /\ r.pc = "done"
      /\ Terminal401(r, r.route.auth)
      /\ Message(r) = Get(r.error)

\* C12 witness: authenticate has answered 401 after its user lookup was rejected.
C12_Witness ==
  \E id \in Answered :
    /\ reqs[id].route.auth = "authenticate" /\ reqs[id].reads = 1
    /\ reqs[id].error = Some(DbError)
    /\ Terminal401(reqs[id], "authenticate")

\* C12 second witness: verifyRefreshToken has answered 401 after reading
\* req.body faulted.
C12_WitnessRequestFault ==
  \E id \in Answered :
    /\ reqs[id].route.auth = "verifyRefreshToken" /\ ~reqs[id].bodyParsed
    /\ reqs[id].error = Some(BodyTypeError)
    /\ Terminal401(reqs[id], "verifyRefreshToken")

\* C12 third witness: verifyRefreshToken has answered 401 after verifyToken threw.
C12_WitnessVerify ==
  \E id \in Answered :
    /\ reqs[id].route.auth = "verifyRefreshToken"
    /\ reqs[id].error = Some("Invalid token")
    /\ Terminal401(reqs[id], "verifyRefreshToken")

\* the messages the middleware and verifyToken word themselves
FixedReasons ==
  { "Access denied. No token provided.", "Token has expired", "Invalid token",
    "Token verification failed", "Invalid token type. Access token required.",
    "User not found. Token may be invalid.", "Account is deactivated.",
    "Refresh token required.", "Invalid token type. Refresh token required.",
    "User not found or account deactivated.", "Invalid refresh token" }

\* C13: the message of every failure response that authenticate and
\* verifyRefreshToken send to a request with a well-formed body is one of the
\* fixed authentication-failure reasons, whatever fault occurred during the
\* request, a fault of the user-store lookup included.
C13_FixedReasons ==
  \A id \in Answered :
    LET r == reqs[id] IN
    (r.route.auth \in {"authenticate", "verifyRefreshToken"} /\ r.bodyParsed) =>
      \A i \in ResponsesBy(r, r.route.auth) : r.res[i].message \in FixedReasons

\* payloads whose fields are strings, and positive lifetimes in seconds
PlainPayloads ==
  { [userId |-> "u1", email |-> Email("u1"), role |-> "user", type |-> "access"],
    [userId |-> "u2", type |-> "refresh"] }
PositiveTtls == {1, AccessTtl, JWT_EXPIRE}

\* verifyToken(token) succeeds at each second from t to the last one before
\* t + ttl that is tried, with claims whose payload is p
RoundTrips(token, p, t, ttl) ==
  \A d \in {0, ttl - 1} :
    LET v == verifyToken(token, t + d) IN
    /\ v.ok /\ v.claims.payload = p
    /\ v.claims.iat = t /\ v.claims.exp = t + ttl

OneHour == 3600

\* C17: every token issued by generateAccessToken expires one hour after it
\* was issued, every token issued by generateRefreshToken expires JWT_EXPIRE
\* (7 days) after it was issued, and the access-token lifetime is not
\* JWT_EXPIRE.
C17_Lifetimes ==
  /\ \A c \in issued :
       /\ c[1].payload.type = "access" => c[1].exp = c[1].iat + OneHour
       /\ (c[1].payload.type = "refresh" /\ c[1].exp >= c[1].iat) =>
            c[1].exp = c[1].iat + JWT_EXPIRE
  /\ JWT_EXPIRE = 7 * 24 * OneHour
  /\ OneHour # JWT_EXPIRE

\* the string 'abc123'
Abc123 == <<Char("a"), Char("b"), Char("c"), Char("1"), Char("2"), Char("3")>>

\* the Authorization headers tried: those the clients send, and the two of the
\* example
HeaderInputs == HeaderValues \cup {Some(Bearer \o Abc123), Some(Abc123)}

extracted(h) == extractTokenFromHeader([authorization |-> h])

\* C18 (amended): for every Authorization header h, extractTokenFromHeader
\* gives null when h is absent or the empty string; h without its first 7
\* characters when h starts with 'Bearer ' (that case of letters only); and h
\* unchanged otherwise.  'Bearer abc123' and 'abc123' both give 'abc123', and
\* the credential a middleware verifies is the one extracted from its header.
C18_Extract ==
  /\ \A h \in HeaderInputs :
       IF h = None \/ h = Some(<<>>) THEN extracted(h) = None
       ELSE IF startsWith(Get(h), Bearer)
         THEN /\ extracted(h) # None
              /\ Bearer \o Get(extracted(h)) = Get(h)
              /\ Len(Get(extracted(h))) = Len(Get(h)) - 7
       ELSE extracted(h) = h
  /\ extracted(Some(Bearer \o Abc123)) = Some(Abc123)
  /\ extracted(Some(Abc123)) = Some(Abc123)
  /\ \A id \in Running :
       (reqs[id].route.auth # "verifyRefreshToken" /\ reqs[id].token # None) =>
          reqs[id].token = extracted(reqs[id].authorization)

\* C18 as stated: null only for an absent header, and every present header
\* that does not start with 'Bearer ' is returned unchanged.
C18_AsStated ==
  \A id \in Running :
    LET h == reqs[id].authorization IN
    IF h = None THEN extracted(h) = None
    ELSE IF startsWith(Get(h), Bearer) THEN Bearer \o Get(extracted(h)) = Get(h)
    ELSE extracted(h) = h

\* C18 witness: a middleware has verified the token of a header that carries
\* it without the marker.
C18_Witness ==
  \E id \in Running : \E c \in issued :
    /\ reqs[id].authorization = Some(c) /\ reqs[id].token = Some(c)
    /\ reqs[id].decoded # None

\* C18 second witness: a header with the marker in lower case has been taken
\* whole as the credential.
C18_WitnessLowerCase ==
  \E id \in Running : \E c \in issued :
    /\ reqs[id].authorization = Some(LowerBearer \o c)
    /\ reqs[id].token = reqs[id].authorization
    /\ reqs[id].error = Some("Invalid token")

\* C19: on a route authenticate -> authorize(roles), the decision of authorize
\* follows the role of the user record that this request's lookup returned,
\* whatever role claim the access token carries: the request reaches the
\* handler exactly when that stored role is among roles, and gets 403
\* otherwise.  A token issued to an admin who has since been made a user is
\* answered 403 by authorize('admin'), and a token issued to a user who has
\* since been made an admin is let through.
C19_StoredRoleDecides ==
  \A id \in Answered : \A c \in issued :
    LET r == reqs[id] IN
    ( /\ r.route.auth = "authenticate" /\ r.route.roles # None
      /\ Presents(r, c) /\ FromGenerateAccessToken(c)
      /\ r.found # None /\ Get(r.found).isActive /\ Get(r.clock) < c[1].exp ) =>
        /\ r.user = r.found
        /\ HandlerReached(r) <=> Get(r.found).role \in AllowedRoles(r)
        /\ Get(r.found).role \notin AllowedRoles(r) =>
             AuthorizeRejects(r, 403, RequiredRole(Get(r.route.roles)))
        /\ (c[1].payload.role = "admin" /\ Get(r.found).role = "user"
              /\ AllowedRoles(r) = {"admin"}) =>
             AuthorizeRejects(r, 403, "Access denied. Required role: admin")
        /\ (c[1].payload.role = "user" /\ Get(r.found).role = "admin") =>
             HandlerReached(r)

\* C19 witness: the unexpired token of a demoted admin has been answered 403
\* by authorize('admin').
C19_Witness ==
  \E id \in Answered : \E c \in issued :
    /\ reqs[id].route = Route("authenticate", Some(<<"admin">>), FALSE)
    /\ Presents(reqs[id], c) /\ FromGenerateAccessToken(c)
    /\ c[1].payload.role = "admin" /\ Get(reqs[id].clock) < c[1].exp
    /\ reqs[id].user # None /\ Get(reqs[id].user).role = "user"
    /\ AuthorizeRejects(reqs[id], 403, "Access denied. Required role: admin")

\* C19 second witness: the old token of a promoted user has reached the
\* handler behind authorize('admin').
C19_WitnessPromoted ==
  \E id \in Answered : \E c \in issued :
    /\ reqs[id].route = Route("authenticate", Some(<<"admin">>), FALSE)
    /\ Presents(reqs[id], c) /\ FromGenerateAccessToken(c)
    /\ c[1].payload.role = "user"
    /\ HandlerReached(reqs[id]) /\ Get(reqs[id].user).role = "admin"

\* C20: isTokenExpired agrees with verifyToken.  For every correctly signed
\* token a middleware has verified at a time t, the second t = exp included,
\* isTokenExpired of its claims at t is true exactly when verifyToken threw
\* 'Token has expired', and it is false only when the token has not yet expired.
C20_ExpiryAgreement ==
  \A id \in Running :
    LET r == reqs[id] IN
    (r.token # None /\ WellSigned(Get(r.token))) =>
      /\ isTokenExpired(Claims(Get(r.token)), Get(r.clock))
           <=> r.error = Some("Token has expired")
      /\ ~isTokenExpired(Claims(Get(r.token)), Get(r.clock))
           => Get(r.clock) < Get(r.token)[1].exp

\* the subject of the token the request itself carries
OwnSubject(r) == Get(r.token)[1].payload.userId

\* what authenticate makes of the request when it runs alone against the
\* store as it is: every outcome the lookup of its own subject allows
Alone(r) == {authenticateResume(r, settled) : settled \in findById(OwnSubject(r))}

\* C14: request isolation.  With two requests in flight, in every step that
\* takes a request from its pending lookup to its end, the outcome is one
\* that authenticate run alone against the store of that moment gives for
\* the request's own token; an attached identity is the user whose id is the
\* subject of that token, with that token's claims; and the step leaves the
\* other request as it was.  A step that starts a request leaves the other
\* request as it was too.
C14_Isolation ==
  [][\A id \in DOMAIN reqs :
       /\ (reqs[id].pc = "lookup" /\ reqs'[id].pc = "done") =>
            /\ reqs'[id] \in Alone(reqs[id])
            /\ reqs'[id].user # None =>
                 /\ Get(reqs'[id].user)._id = ObjectId(OwnSubject(reqs[id]))
                 /\ reqs'[id].user = users[OwnSubject(reqs[id])]
                 /\ reqs'[id].reqToken = Some(Claims(Get(reqs[id].token)))
            /\ \A other \in DOMAIN reqs \ {id} : reqs'[other] = reqs[other]
       /\ (reqs[id].pc = "idle" /\ reqs'[id].pc # "idle") =>
            /\ reqs'[id] = started(reqs'[id].route, reqs'[id].authorization,
                                   Body(TRUE, None), now)
            /\ \A other \in DOMAIN reqs \ {id} : reqs'[other] = reqs[other]
    ]_vars

\* C14 witness: two requests carrying the tokens of two different users have
\* both been let through, each with its own user attached.
C14_Witness ==
  \E a \in Answered : \E b \in Answered :
    /\ a # b
    /\ AuthenticateSuccess(reqs[a]) /\ AuthenticateSuccess(reqs[b])
    /\ OwnSubject(reqs[a]) # OwnSubject(reqs[b])
    /\ Get(reqs[a].user)._id = ObjectId(OwnSubject(reqs[a]))
    /\ Get(reqs[b].user)._id = ObjectId(OwnSubject(reqs[b]))

\* C14 second witness: one request has been let through while another,
\* carrying another user's token, waits for its lookup.
C14_WitnessPending ==
  \E a \in Answered : \E b \in DOMAIN reqs :
    /\ reqs[b].pc = "lookup" /\ AuthenticateSuccess(reqs[a])
    /\ OwnSubject(reqs[a]) # OwnSubject(reqs[b])

\* authorize has decided: it has answered or called next
AuthorizeDecided(r) == ResponsesBy(r, "authorize") # {} \/ NextCalls(r, "authorize") = 1

\* C15 (amended): in a chain authenticate -> authorize -> handler, while the
\* request's lookup is pending neither authorize nor the handler has run and
\* nothing is attached, whether or not the client has gone; authorize has run
\* only after the lookup returned a user and authenticate called next, and the
\* handler only after authorize called next.  A client that abandons the
\* request while the lookup is pending changes nothing outside the request,
\* and nothing cancels the chain: when the lookup settles the request goes on
\* as any other.
C15_Ordering ==
  /\ [](\A id \in Running :
         LET r == reqs[id] IN
         /\ r.pc = "lookup" =>
              (r.res = <<>> /\ r.nexts = <<>> /\ ~HasIdentity(r) /\ r.found = None)
         /\ (r.route.roles # None /\ AuthorizeDecided(r)) =>
              (r.pc = "done" /\ r.found # None /\ r.user = r.found
                 /\ r.nexts[1] = "authenticate")
         /\ (r.route.roles # None /\ HandlerReached(r)) =>
              (r.nexts = <<"authenticate", "authorize">> /\ Len(r.res) = 1))
  /\ [][\A id \in DOMAIN reqs :
          /\ (~reqs[id].aborted /\ reqs'[id].aborted) =>
               /\ reqs' = [reqs EXCEPT ![id].aborted = TRUE]
               /\ UNCHANGED <<now, users, issued>>
          /\ (reqs[id].aborted /\ reqs[id].pc = "lookup" /\ reqs'[id].pc = "done") =>
               reqs'[id] \in Alone(reqs[id])
      ]_vars

\* C15 as stated: neither authorize nor the handler runs for a request that
\* was abandoned while its lookup was pending.
C15_AsStated ==
  \A id \in Running :
    reqs[id].aborted => (~AuthorizeDecided(reqs[id]) /\ ~HandlerReached(reqs[id]))

\* C15 witness: a request abandoned while its lookup was pending has gone
\* through authorize to the handler once the lookup settled.
C15_Witness ==
  \E id \in Answered :
    /\ reqs[id].aborted /\ reqs[id].route.roles # None
    /\ reqs[id].nexts = <<"authenticate", "authorize">>
    /\ HandlerReached(reqs[id])

\* C15 second witness: an abandoned request is waiting for its lookup with
\* nothing run and nothing attached.
C15_WitnessPending ==
  \E id \in DOMAIN reqs :
    /\ reqs[id].pc = "lookup" /\ reqs[id].aborted
    /\ reqs[id].route.roles # None /\ reqs[id].res = <<>>

\* the same request sent without an Authorization header, as its first
\* middleware leaves it
WithoutHeader(r) ==
  started(r.route, None, Body(r.bodyParsed, r.refreshToken),
          IF r.clock = None THEN now ELSE Get(r.clock))

SameButHeader(a, b) == [a EXCEPT !.authorization = None] = [b EXCEPT !.authorization = None]

\* C21: a request whose Authorization header is 'Bearer ' followed by nothing
\* fares in every middleware as the same request without the header.
\* authenticate answers 401 'Access denied. No token provided.' and has not
\* called verifyToken; optionalAuth calls next once with no identity and has
\* not called verifyToken; verifyRefreshToken verifies the body field
\* refreshToken when there is one and answers 401 'Refresh token required.'
\* when the body has none.
C21_EmptyBearer ==
  \A id \in Running :
    LET r == reqs[id] IN
    r.authorization = Some(Bearer) =>
      /\ (r.reads = 0 \/ r.pc = "lookup") => SameButHeader(r, WithoutHeader(r))
      /\ r.route.auth = "authenticate" =>
           /\ Terminal401(r, "authenticate")
           /\ Message(r) = "Access denied. No token provided."
           /\ r.token = None /\ r.clock = None /\ r.error = None
      /\ r.route.auth = "optionalAuth" =>
           /\ r.pc = "done" /\ NextCalls(r, "optionalAuth") = 1
           /\ ~HasIdentity(r) /\ ResponsesBy(r, "optionalAuth") = {}
           /\ r.token = None /\ r.clock = None /\ r.error = None
      /\ r.route.auth = "verifyRefreshToken" =>
           /\ Truthy(r.refreshToken) => r.token = r.refreshToken
           /\ (r.bodyParsed /\ ~Truthy(r.refreshToken)) =>
                (Terminal401(r, "verifyRefreshToken")
                   /\ Message(r) = "Refresh token required.")
           /\ (r.res # <<>> /\ Message(r) = "Refresh token required.") =>
                ~Truthy(r.refreshToken)

\* C21 witness: authenticate has answered 'no token provided' to a header
\* that is 'Bearer ' alone.
C21_Witness ==
  \E id \in Answered :
    /\ reqs[id].route.auth = "authenticate"
    /\ reqs[id].authorization = Some(Bearer)
    /\ Message(reqs[id]) = "Access denied. No token provided."

\* C21 second witness: under a header that is 'Bearer ' alone,
\* verifyRefreshToken is waiting for the user of the token in the body.
C21_WitnessBody ==
  \E id \in DOMAIN reqs : \E c \in issued :
    /\ reqs[id].route.auth = "verifyRefreshToken" /\ reqs[id].pc = "lookup"
    /\ reqs[id].authorization = Some(Bearer)
    /\ reqs[id].refreshToken = Some(c) /\ reqs[id].token = Some(c)

\* C21 third witness: optionalAuth has let a header that is 'Bearer ' alone
\* through to authorize, which answered 401.
C21_WitnessOptional ==
  \E id \in Answered :
    /\ reqs[id].route.auth = "optionalAuth"
    /\ reqs[id].authorization = Some(Bearer)
    /\ AuthorizeRejects(reqs[id], 401, "Access denied. Authentication required.")

\* the two stores of C22 as the lookup of request r sees them: the subject of
\* the token is absent, or present and inactive
SubjectAbsent == [rejected |-> FALSE, value |-> None]
SubjectInactive(r) ==
  { [rejected |-> FALSE, value |-> Some(UserRecord(OwnSubject(r), role, FALSE))] :
      role \in Roles }

\* C22: verifyRefreshToken does not tell a missing user from a deactivated one.
\* Whenever it waits for the user of a valid refresh token, the run in which
\* the subject is absent and the run in which the subject is inactive end with
\* the same responses, one 401 'User not found or account deactivated.', and
\* every finished run of either kind carries that response; when authenticate
\* waits for the user of a valid access token, both runs end with status 401
\* and nothing else.
C22_NoUserOracle ==
  /\ \A id \in DOMAIN reqs :
       LET r == reqs[id] IN
       r.pc = "lookup" =>
         \A inactive \in SubjectInactive(r) :
           /\ r.route.auth = "verifyRefreshToken" =>
                LET a == verifyRefreshTokenResume(r, SubjectAbsent)
                    b == verifyRefreshTokenResume(r, inactive) IN
                /\ a.res = b.res /\ a.nexts = b.nexts
                /\ Terminal401(a, "verifyRefreshToken")
                /\ Message(a) = "User not found or account deactivated."
           /\ r.route.auth = "authenticate" =>
                LET a == authenticateResume(r, SubjectAbsent)
                    b == authenticateResume(r, inactive) IN
                /\ Terminal401(a, "authenticate")
                /\ Terminal401(b, "authenticate")
  /\ \A id \in Answered :
       LET r == reqs[id] IN
       (r.reads = 1 /\ r.error = None
          /\ (r.found = None \/ ~Get(r.found).isActive)) =>
         /\ r.route.auth = "verifyRefreshToken" =>
              (Terminal401(r, "verifyRefreshToken")
                 /\ Message(r) = "User not found or account deactivated.")
         /\ r.route.auth = "authenticate" => Terminal401(r, "authenticate")

\* C22 witness: verifyRefreshToken has answered a valid refresh token whose
\* subject is in the store, inactive.
C22_Witness ==
  \E id \in Answered :
    /\ reqs[id].route.auth = "verifyRefreshToken"
    /\ reqs[id].found # None /\ ~Get(reqs[id].found).isActive
    /\ Message(reqs[id]) = "User not found or account deactivated."

\* C22 second witness: verifyRefreshToken has answered a valid refresh token
\* whose subject is not in the store.
C22_WitnessAbsent ==
  \E id \in Answered :
    /\ reqs[id].route.auth = "verifyRefreshToken"
    /\ reqs[id].reads = 1 /\ reqs[id].error = None /\ reqs[id].found = None
    /\ users[OwnSubject(reqs[id])] = None
    /\ Message(reqs[id]) = "User not found or account deactivated."

\* C22 third witness: authenticate has answered 401 to a valid access token
\* whose subject is inactive.
C22_WitnessAuthenticate ==
  \E id \in Answered :
    /\ reqs[id].route.auth = "authenticate"
    /\ reqs[id].found # None /\ ~Get(reqs[id].found).isActive
    /\ Message(reqs[id]) = "Account is deactivated."

\* the record the lookup of request r resolved to, if it resolved to one
Resolved(r) ==
  IF r.settled = None \/ Get(r.settled).rejected THEN None
  ELSE Get(r.settled).value

\* C23: the identity authenticate attaches is the store's record at the moment
\* the lookup resolved.  The lookup resolves to what the store holds for the
\* token's subject at that moment, so every earlier change is honoured; a
\* write to the store changes no request in flight; and when the rest of the
\* chain runs, it runs on the resolved record whatever the store holds by
\* then: an active record is attached as req.user and reaches the handler
\* when the route names no role or names the record's role, and gets 403
\* from authorize otherwise; a missing or inactive record, or a failed
\* lookup, gets 401 from authenticate.
C23_LookupTimeIdentity ==
  [][\A id \in DOMAIN reqs :
       LET r == reqs[id]
           q == reqs'[id] IN
       /\ users' # users => reqs' = reqs
       /\ (r.pc = "lookup" /\ q.pc = "settled") =>
            (~Get(q.settled).rejected =>
               Get(q.settled).value = users[OwnSubject(r)])
       /\ (r.pc = "settled" /\ q.pc = "done") =>
            IF Resolved(r) # None /\ Get(Resolved(r)).isActive
              THEN /\ q.user = Resolved(r)
                   /\ NextCalls(q, "authenticate") = 1
                   /\ ResponsesBy(q, "authenticate") = {}
                   /\ IF r.route.roles = None
                           \/ Get(Resolved(r)).role \in AllowedRoles(r)
                        THEN HandlerReached(q)
                        ELSE /\ ~HandlerReached(q)
                             /\ \E i \in ResponsesBy(q, "authorize") : q.res[i].status = 403
              ELSE Terminal401(q, "authenticate")
    ]_vars

\* C23 witness: a request has reached the handler of /api/admin with the admin
\* record its lookup resolved to, although the store no longer held that
\* record when the continuation ran.
C23_Witness ==
  \E id \in Answered :
    LET r == reqs[id] IN
    /\ r.route.roles # None /\ HandlerReached(r)
    /\ r.user = Resolved(r)
    /\ r.storeAtContinue # None /\ Get(r.storeAtContinue) # r.user

\* C23 second witness: the user was deleted after the lookup of one request
\* resolved; that request is still to run, and a request whose lookup came
\* after the deletion has been answered 401.
C23_WitnessLater ==
  \E a, b \in DOMAIN reqs :
    /\ reqs[a].pc = "settled" /\ Resolved(reqs[a]) # None
    /\ Get(Resolved(reqs[a])).isActive
    /\ users[OwnSubject(reqs[a])] = None
    /\ reqs[b].pc = "done" /\ reqs[b].settled # None
    /\ Resolved(reqs[b]) = None /\ ~Get(reqs[b].settled).rejected
    /\ Terminal401(reqs[b], "authenticate")

\* C23 third witness: the admin was made a plain user after the token was
\* issued and before the lookup of a request to /api/admin resolved; the
\* request was answered 403 by authorize.
C23_WitnessHonoured ==
  \E id \in Answered :
    LET r == reqs[id] IN
    /\ r.route.roles # None /\ ~HandlerReached(r)
    /\ r.decoded # None /\ Get(r.decoded).payload.role = "admin"
    /\ Resolved(r) # None /\ Get(Resolved(r)).role = "user"
    /\ r.user = Resolved(r)
    /\ \E i \in ResponsesBy(r, "authorize") : r.res[i].status = 403

====
